---- MODULE Spec2Model ----
(***************************************************************************)
(* Zoning advisor (Streamlit scripts urban_planning_and_design14.py and    *)
(* its earlier revisions upd_phase3.py, upd_phase4.py, upd_phase5.py).     *)
(*                                                                         *)
(* Every script is re-executed top to bottom on each user interaction.     *)
(* An action of this module is one such execution, named after the widget  *)
(* that triggered it.  The revision that is being run is the variable      *)
(* `variant`; it is chosen once and never changes.                         *)
(*                                                                         *)
(* Strings are TLA+ strings; the leading pictograph of the user-visible    *)
(* messages (a non-ASCII glyph followed by a space) is left out of the     *)
(* literals and the superscript of "per km2" is written as the digit 2;    *)
(* the rest of each message is the text of the source.                     *)
(*                                                                         *)
(* Numbers: heights, densities and setbacks are whole units, floor area    *)
(* ratios are counted in tenths (15 is 1.5).                               *)
(***************************************************************************)
EXTENDS Integers, Sequences, FiniteSets, TLC

VARIABLES
    variant,                \* which script of the repository is running
    csv,                    \* the file zoning_data.csv as found on disk
    pc,                     \* position of the script / outcome of the last run
    rules_df,               \* the loaded DataFrame
    proposal,               \* the widget values of the last run
    selected_rule,          \* the row used by the last run
    violations,             \* list of violation messages of the last run
    compliances,            \* list of compliance messages of the last run
    compliance_percentage,  \* the score of the last run
    score_metric,           \* the text of the "Compliance Score" metric
    recommendations,        \* the lines written by the Recommendations block
    chat_history,           \* st.session_state.chat_history
    question,               \* the FAQ selectbox
    faq_out,                \* the line the FAQ tab wrote in the last run
    stopped                 \* st.stop() ended the last run of the chat page

vars == <<variant, csv, pc, rules_df, proposal, selected_rule, violations,
          compliances, compliance_percentage, score_metric, recommendations,
          chat_history, question, faq_out, stopped>>

evalVars == <<csv, pc, rules_df, proposal, selected_rule, violations,
              compliances, compliance_percentage, score_metric, recommendations>>

chatVars == <<chat_history, question, faq_out, stopped>>

-----------------------------------------------------------------------------
(* Bounds of the model *)

\* proposal numbers are drawn within Delta of the limit of the chosen rule
Delta == 1

\* number of chat submissions in one session
MaxSubmissions == 2

\* largest list length fed to the score function on its own
MaxChecks == 7

-----------------------------------------------------------------------------
(* Python str operations *)

UpperChars == "ABCDEFGHIJKLMNOPQRSTUVWXYZ"

LowerChars == "abcdefghijklmnopqrstuvwxyz"

CharAt(s, i) == SubSeq(s, i, i)

\* str.lower() on one character
LowerChar(c) ==
    IF \E i \in 1..Len(UpperChars) : CharAt(UpperChars, i) = c
    THEN CharAt(LowerChars, CHOOSE i \in 1..Len(UpperChars) : CharAt(UpperChars, i) = c)
    ELSE c

RECURSIVE Lower(_)
\* str.lower()
Lower(s) ==
    IF Len(s) = 0 THEN ""
    ELSE LowerChar(CharAt(s, 1)) \o Lower(SubSeq(s, 2, Len(s)))

IsSpace(c) == c \in {" ", "\t", "\n"}

\* str.strip(): drops the leading and the trailing whitespace
Strip(s) ==
    LET idx == {i \in 1..Len(s) : ~IsSpace(CharAt(s, i))}
    IN  IF idx = {} THEN ""
        ELSE LET lo == CHOOSE i \in idx : \A j \in idx : i <= j
                 hi == CHOOSE i \in idx : \A j \in idx : i >= j
             IN  SubSeq(s, lo, hi)

\* Python `sub in s`
Contains(sub, s) ==
    \E i \in 1..(Len(s) - Len(sub) + 1) : SubSeq(s, i, i + Len(sub) - 1) = sub

DigitChars == "0123456789"

RECURSIVE Digits(_)
\* str() of a non-negative integer
Digits(n) ==
    IF n < 10 THEN CharAt(DigitChars, n + 1)
    ELSE Digits(n \div 10) \o CharAt(DigitChars, (n % 10) + 1)

\* str() of a float with one decimal, the number given in tenths
FloatStr(tenths) == Digits(tenths \div 10) \o "." \o Digits(tenths % 10)

-----------------------------------------------------------------------------
(* The rule table: zoning_data.csv and pandas.read_csv *)

\* a CSV cell that parses as a number
Num(n) == [isnum |-> TRUE, n |-> n, s |-> ""]

\* a CSV cell that does not parse as a number
Str(s) == [isnum |-> FALSE, n |-> 0, s |-> s]

Row(lt, mh, pd, nmr, sb, far) ==
    [land_type |-> lt, max_height |-> mh, pop_density_limit |-> pd,
     near_main_road |-> nmr, setback_min |-> sb, floor_area_ratio |-> far]

NumericColumns == {"max_height", "pop_density_limit", "setback_min", "floor_area_ratio"}

AllColumns == NumericColumns \cup {"land_type", "near_main_road"}

File(header, rows) == [exists |-> TRUE, empty |-> FALSE, header |-> header, rows |-> rows]

\* no file zoning_data.csv
MissingFile == [exists |-> FALSE, empty |-> FALSE, header |-> {}, rows |-> <<>>]

\* a file of zero bytes
EmptyFile == [exists |-> TRUE, empty |-> TRUE, header |-> {}, rows |-> <<>>]

\* a header line and no row
HeaderOnlyFile == File(AllColumns, <<>>)

\* the one-row table of the specification's examples
ExampleFile == File(AllColumns, <<Row("Residential", Num(15), Num(500), "yes", Num(3), Num(15))>>)

\* the key column is absent
NoLandTypeFile ==
    File(AllColumns \ {"land_type"}, <<Row("", Num(15), Num(500), "yes", Num(3), Num(15))>>)

\* the header cells carry surrounding blanks
PaddedHeaderFile ==
    File({" land_type", "max_height ", " pop_density_limit ", "near_main_road",
          "setback_min", "floor_area_ratio"},
         <<Row("Residential", Num(15), Num(500), "yes", Num(3), Num(15))>>)

\* duplicate keys, keys that differ in letter case only, and a capitalised
\* near_main_road value
DuplicatesFile ==
    File(AllColumns,
         <<Row("Residential", Num(15), Num(500), "yes", Num(3), Num(15)),
           Row("residential", Num(14), Num(499), "no", Num(4), Num(14)),
           Row("Commercial", Num(30), Num(1000), "Yes", Num(2), Num(30)),
           Row("Residential", Num(16), Num(501), "no", Num(2), Num(16))>>)

\* one row whose max_height is not a number
BadNumberFile ==
    File(AllColumns,
         <<Row("Residential", Str("abc"), Num(500), "yes", Num(3), Num(15)),
           Row("Commercial", Num(30), Num(1000), "no", Num(2), Num(30))>>)

CsvFiles ==
    {MissingFile, EmptyFile, HeaderOnlyFile, ExampleFile, NoLandTypeFile,
     PaddedHeaderFile, DuplicatesFile, BadNumberFile}

\* the text of a cell of a column pandas left as strings
CellText(cell) == IF cell.isnum THEN Digits(cell.n) ELSE cell.s

\* column `col` holds a number in every row
ColumnIsNumeric(rows, col) == \A i \in 1..Len(rows) : rows[i][col].isnum

\* pandas dtype inference: a column with one cell that does not parse stays
\* a column of strings, the cells that would parse included
InferColumn(rows, col, cell) ==
    IF ColumnIsNumeric(rows, col) THEN cell ELSE Str(CellText(cell))

\* pd.read_csv on a file with a header line
ReadCsv(f) ==
    [columns |-> f.header,
     rows |-> [i \in 1..Len(f.rows) |->
                 [col \in AllColumns |->
                    IF col \in NumericColumns
                    THEN InferColumn(f.rows, col, f.rows[i][col])
                    ELSE f.rows[i][col]]]]

\* pd.DataFrame(columns=[...]): the table used when the file is missing
EmptyFrame == [columns |-> AllColumns, rows |-> <<>>]

\* rules_df.columns.str.strip()
StripColumns(df) == [df EXCEPT !.columns = {Strip(c) : c \in df.columns}]

Variants == {"main", "phase3", "phase4", "phase5"}

\* the revisions with the five-check form
FormVariants == {"main", "phase4", "phase5"}

\* the DataFrame a script holds after its loading code, its columns reduced
\* to what the script can address by name
LoadedFrame(v, f) ==
    IF ~f.exists \/ f.empty THEN EmptyFrame
    ELSE IF v = "phase3" THEN StripColumns(ReadCsv(f))
    ELSE ReadCsv(f)

\* where the start of the script leaves it
LoadOutcome(v, f) ==
    IF v = "phase3"
    THEN IF ~f.exists \/ f.empty THEN "stopped"
         ELSE IF "land_type" \notin LoadedFrame(v, f).columns THEN "stopped"
         ELSE "form"
    ELSE IF f.exists /\ f.empty THEN "EmptyDataError"
         ELSE IF "land_type" \notin LoadedFrame(v, f).columns THEN "KeyError"
         ELSE "form"

-----------------------------------------------------------------------------
(* The form and the lookup of the rule *)

\* value= of the four number inputs of the form
DefaultHeight == 10

DefaultDensity == 100

DefaultSetback == 3

DefaultFar == 10

\* rules_df["land_type"].unique(): the distinct keys in first-seen order
Categories(df) ==
    LET rows == df.rows
        first == {i \in 1..Len(rows) :
                    \A j \in 1..(i - 1) : rows[j].land_type # rows[i].land_type}
    IN  {rows[i].land_type : i \in first}

\* what st.selectbox can return: one of the options, or None (the empty
\* sequence) when there is no option
LandTypeChoices(df) ==
    IF Categories(df) = {} THEN {<<>>} ELSE {<<k>> : k \in Categories(df)}

\* the rows whose land_type equals the requested key:
\* rules_df[rules_df["land_type"] == land_type]
MatchingRows(df, land_type) ==
    {i \in 1..Len(df.rows) : land_type = <<df.rows[i].land_type>>}

\* the bug of taking the last match instead of the first
LookupLast(df, land_type) ==
    LET m == MatchingRows(df, land_type)
    IN  IF m = {} THEN <<>>
        ELSE <<df.rows[CHOOSE i \in m : \A j \in m : j <= i]>>

\* .iloc[0] of the matching rows, after the test that there is one; the
\* empty sequence when no row matches
Lookup(df, land_type) ==
    LET m == MatchingRows(df, land_type)
    IN  IF m = {} THEN <<>>
        ELSE <<df.rows[CHOOSE i \in m : \A j \in m : i <= j]>>

\* the numbers a number input is given: within Delta of the limit of the
\* rule that will be looked up (of the widget's default when there is none),
\* never below the widget's min_value
NumberChoices(rule, col, default, min_value) ==
    LET centre == IF rule # <<>> /\ rule[1][col].isnum THEN rule[1][col].n ELSE default
    IN  {x \in (centre - Delta)..(centre + Delta) : x >= min_value}

\* min_value= of the height and density inputs
MinValue(v) == IF v = "phase3" THEN 1 ELSE 0

\* the widget values of one run of the script with the land type `lt` chosen
ProposalsFor(v, df, lt) ==
    LET rule == Lookup(df, lt)
    IN  {[land_type |-> lt, height |-> h, population_density |-> d,
          near_main_road |-> nmr, setback |-> sb, floor_area_ratio |-> far] :
            h \in NumberChoices(rule, "max_height", DefaultHeight, MinValue(v)),
            d \in NumberChoices(rule, "pop_density_limit", DefaultDensity, MinValue(v)),
            nmr \in {"yes", "no"},
            sb \in IF v = "phase3" THEN {0}
                   ELSE NumberChoices(rule, "setback_min", DefaultSetback, 0),
            far \in IF v = "phase3" THEN {0}
                    ELSE NumberChoices(rule, "floor_area_ratio", DefaultFar, 0)}

\* the widget values of one run of the script
Proposals(v, df) == UNION {ProposalsFor(v, df, lt) : lt \in LandTypeChoices(df)}

\* the widgets before the first interaction
NoProposal ==
    [land_type |-> <<>>, height |-> 0, population_density |-> 0,
     near_main_road |-> "", setback |-> 0, floor_area_ratio |-> 0]

-----------------------------------------------------------------------------
(* The compliance checks *)

\* the bug of counting the boundary value as a violation
ExceedsInclusive(value, limit) == value >= limit

\* `value > limit` of the height, density and FAR checks
Exceeds(value, limit) == value > limit

\* `setback < selected_rule["setback_min"]`
BelowMinimum(value, limit) == value < limit

\* `near_main_road != selected_rule["near_main_road"]`; phase3 lower-cases
\* both sides first
ProximityDiffers(v, near_main_road, required) ==
    IF v = "phase3" THEN Lower(near_main_road) # Lower(required)
    ELSE near_main_road # required

NoResults == [violations |-> <<>>, compliances |-> <<>>, error |-> ""]

\* one `if ...: violations.append(...) else: compliances.append(...)` on a
\* numeric limit.  Comparing a number with a cell pandas left as a string
\* raises TypeError, which ends the run; phase3 has no else branch.
NumericCheck(v, acc, cell, violated, vmsg, cmsg) ==
    IF acc.error # "" THEN acc
    ELSE IF ~cell.isnum THEN [acc EXCEPT !.error = "TypeError"]
    ELSE IF violated THEN [acc EXCEPT !.violations = Append(@, vmsg)]
    ELSE IF v = "phase3" THEN acc
    ELSE [acc EXCEPT !.compliances = Append(@, cmsg)]

HeightCheck(v, acc, p, r) ==
    NumericCheck(v, acc, r.max_height,
        r.max_height.isnum /\ Exceeds(p.height, r.max_height.n),
        IF v = "phase3"
        THEN "Height exceeds max limit of " \o CellText(r.max_height) \o " meters."
        ELSE "Height exceeds " \o CellText(r.max_height) \o " meters.",
        "Height of " \o FloatStr(10 * p.height) \o "m is within the allowed limit.")

DensityCheck(v, acc, p, r) ==
    NumericCheck(v, acc, r.pop_density_limit,
        r.pop_density_limit.isnum /\ Exceeds(p.population_density, r.pop_density_limit.n),
        IF v = "phase3"
        THEN "Population density exceeds the allowed limit of "
                 \o CellText(r.pop_density_limit) \o "."
        ELSE "Density exceeds " \o CellText(r.pop_density_limit) \o " per km2.",
        "Population density of " \o Digits(p.population_density) \o " per km2 is allowed.")

ProximityCheck(v, acc, p, r) ==
    IF acc.error # "" THEN acc
    ELSE IF ProximityDiffers(v, p.near_main_road, r.near_main_road)
    THEN [acc EXCEPT !.violations = Append(@,
            IF v = "phase3"
            THEN "Proximity to main road does not match zoning requirement ("
                     \o r.near_main_road \o ")."
            ELSE "Site should be " \o r.near_main_road \o " to a main road.")]
    ELSE IF v = "phase3" THEN acc
    ELSE [acc EXCEPT !.compliances = Append(@, "Proximity to main road is acceptable.")]

SetbackCheck(v, acc, p, r) ==
    NumericCheck(v, acc, r.setback_min,
        r.setback_min.isnum /\ BelowMinimum(p.setback, r.setback_min.n),
        "Setback is less than " \o CellText(r.setback_min) \o " meters.",
        "Setback of " \o FloatStr(10 * p.setback) \o "m is compliant.")

\* a float column prints with its decimal, a column left as strings as read
FarText(cell) == IF cell.isnum THEN FloatStr(cell.n) ELSE cell.s

FarCheck(v, acc, p, r) ==
    NumericCheck(v, acc, r.floor_area_ratio,
        r.floor_area_ratio.isnum /\ Exceeds(p.floor_area_ratio, r.floor_area_ratio.n),
        "FAR exceeds " \o FarText(r.floor_area_ratio) \o ".",
        "FAR of " \o FloatStr(p.floor_area_ratio) \o " is compliant.")

\* the bug of stopping at the first violation
EvaluateShortCircuit(v, p, r) ==
    LET a1 == HeightCheck(v, NoResults, p, r)
        a2 == IF a1.violations # <<>> THEN a1 ELSE DensityCheck(v, a1, p, r)
        a3 == IF a2.violations # <<>> THEN a2 ELSE ProximityCheck(v, a2, p, r)
        a4 == IF a3.violations # <<>> THEN a3 ELSE SetbackCheck(v, a3, p, r)
    IN  IF a4.violations # <<>> THEN a4 ELSE FarCheck(v, a4, p, r)

\* the checks of one run, in the order of the source: five in the form
\* revisions, the first three in phase3
Evaluate(v, p, r) ==
    LET a1 == HeightCheck(v, NoResults, p, r)
        a2 == DensityCheck(v, a1, p, r)
        a3 == ProximityCheck(v, a2, p, r)
    IN  IF v = "phase3" THEN a3
        ELSE FarCheck(v, SetbackCheck(v, a3, p, r), p, r)

-----------------------------------------------------------------------------
(* The score and the recommendations *)

\* the bug of putting the violations in the numerator
PercentageOfViolations(viols, compls) ==
    IF viols # <<>> \/ compls # <<>>
    THEN [num |-> Len(viols) * 100, den |-> Len(viols) + Len(compls)]
    ELSE [num |-> 0, den |-> 1]

\* the bug of dividing with // (floor division) before scaling
PercentageFloorDivision(viols, compls) ==
    IF viols # <<>> \/ compls # <<>>
    THEN [num |-> (Len(compls) \div (Len(viols) + Len(compls))) * 100, den |-> 1]
    ELSE [num |-> 0, den |-> 1]

\* (len(compliances) / (len(violations) + len(compliances)) * 100)
\*     if (violations or compliances) else 0
\* The float is kept as the fraction num/den it approximates.
CompliancePercentage(viols, compls) ==
    IF viols # <<>> \/ compls # <<>>
    THEN [num |-> Len(compls) * 100, den |-> Len(viols) + Len(compls)]
    ELSE [num |-> 0, den |-> 1]

\* the ".1f" conversion: the number of tenths nearest to the value, an exact
\* tie going to the even digit
RoundTenths(pct) ==
    LET q == (pct.num * 10) \div pct.den
        rem == (pct.num * 10) % pct.den
    IN  IF 2 * rem > pct.den THEN q + 1
        ELSE IF 2 * rem < pct.den THEN q
        ELSE IF q % 2 = 0 THEN q ELSE q + 1

\* f"{compliance_percentage:.1f}%"
ScoreMetric(pct) == FloatStr(RoundTenths(pct)) \o "%"

\* one turn of the loop `for v in violations:` of the Recommendations block
Recommend(v, r) ==
    IF Contains("Height", v)
    THEN <<"- Reduce height to " \o CellText(r.max_height) \o "m or apply for variance.">>
    ELSE IF Contains("Density", v)
    THEN <<"- Reduce population or adjust property size.">>
    ELSE IF Contains("Proximity", v)
    THEN <<"- Consider alternative location.">>
    ELSE IF Contains("Setback", v)
    THEN <<"- Increase setback to at least " \o CellText(r.setback_min) \o " meters.">>
    ELSE IF Contains("FAR", v)
    THEN <<"- Lower FAR below " \o FarText(r.floor_area_ratio) \o ".">>
    ELSE <<>>

RECURSIVE Recommendations(_, _)
\* the Recommendations block
Recommendations(viols, r) ==
    IF viols = <<>> THEN <<>>
    ELSE Recommend(Head(viols), r) \o Recommendations(Tail(viols), r)

-----------------------------------------------------------------------------
(* The chat and the FAQ *)

\* the dict `responses` of the main script, in insertion order
ResponsesMain ==
    <<<<"height limit", "The maximum building height allowed varies by zone.">>,
      <<"population density", "Population density limits help prevent overcrowding.">>,
      <<"far", "Floor Area Ratio defines the relationship between building size and land area.">>,
      <<"setback", "Setbacks ensure buildings maintain proper distance from roads and neighboring properties.">>,
      <<"exit", "Goodbye! Chat session has ended.">>>>

\* the dict `responses` the Submit handler of phase5 reads
ResponsesPhase5Chat ==
    <<<<"height limit", "The maximum building height allowed varies by zone.">>,
      <<"population density", "Population density limits help prevent overcrowding.">>,
      <<"FAR", "Floor Area Ratio defines the relationship between building size and land area.">>,
      <<"setback", "Setbacks ensure buildings maintain proper distance from roads and neighboring properties.">>>>

\* the dict `responses` the selector of phase5 reads
ResponsesPhase5Faq ==
    <<<<"Height Limit", "The maximum building height allowed varies by zone.">>,
      <<"Population Density", "Population density limits help prevent overcrowding.">>,
      <<"FAR", "Floor Area Ratio defines the relationship between building size and land area.">>,
      <<"Setback", "Setbacks ensure buildings maintain proper distance from roads and neighboring properties.">>,
      <<"Exit", "Goodbye! Chat session has ended.">>>>

FallbackMain ==
    "I can help with zoning regulations like height limits, FAR, setbacks, and density."

FallbackPhase5 ==
    "I can help with zoning regulations, setbacks, FAR, and population density!"

ChatVariants == {"main", "phase5"}

ChatResponses(v) == IF v = "main" THEN ResponsesMain ELSE ResponsesPhase5Chat

FaqResponses(v) == IF v = "main" THEN ResponsesMain ELSE ResponsesPhase5Faq

Fallback(v) == IF v = "main" THEN FallbackMain ELSE FallbackPhase5

\* list(responses.keys())
Keys(table) == [i \in 1..Len(table) |-> table[i][1]]

\* key in responses
HasKey(table, key) == \E i \in 1..Len(table) : table[i][1] = key

\* responses.get(key, default)
Get(table, key, default) ==
    IF HasKey(table, key)
    THEN table[CHOOSE i \in 1..Len(table) : table[i][1] = key][2]
    ELSE default

\* user_query.lower().strip() in the main script, user_query.lower() in phase5
QueryKey(v, user_query) ==
    IF v = "main" THEN Strip(Lower(user_query)) ELSE Lower(user_query)

\* the bug of answering the sentinel with the fallback, as for no topic
BotResponseNoExit(v, user_query) ==
    IF QueryKey(v, user_query) = "exit" THEN Fallback(v)
    ELSE Get(ChatResponses(v), QueryKey(v, user_query), Fallback(v))

\* the answer the Submit handler of the chat gives
BotResponse(v, user_query) ==
    Get(ChatResponses(v), QueryKey(v, user_query), Fallback(v))

\* the line the FAQ tab writes for the chosen topic
FaqLine(v, q) ==
    IF q = "" THEN ""
    ELSE IF v = "main" THEN "**Bot:** " \o Get(ResponsesMain, Lower(q), "")
    ELSE "**Bot:** " \o Get(ResponsesPhase5Faq, q, FallbackPhase5)

\* whether the FAQ tab ends the run with st.stop()
FaqStops(v, q) ==
    IF q = "" THEN FALSE
    ELSE IF v = "main" THEN Lower(q) = "exit"
    ELSE q = "Exit"

\* what a user types into the chat box
Queries ==
    {"setback", " Setback ", "SETBACK", "exit", " EXIT", "far", "FAR",
     "Height Limit", "population density ", "gibberish", "set", "setback far", ""}

-----------------------------------------------------------------------------
(* The compliance page *)

\* the chat page before the first interaction: an empty history, the
\* selector on its first option
ChatInit ==
    /\ chat_history = <<>>
    /\ question = IF variant \in ChatVariants THEN Keys(FaqResponses(variant))[1] ELSE ""
    /\ faq_out = FaqLine(variant, question)
    /\ stopped = FaqStops(variant, question)

\* no run of the compliance code yet
EvalInit ==
    /\ pc = "start"
    /\ rules_df = EmptyFrame
    /\ proposal = NoProposal
    /\ selected_rule = <<>>
    /\ violations = <<>>
    /\ compliances = <<>>
    /\ compliance_percentage = <<>>
    /\ score_metric = ""
    /\ recommendations = <<>>

Init ==
    /\ variant \in Variants
    /\ csv \in CsvFiles
    /\ EvalInit
    /\ ChatInit

\* the first run of the script: the table is loaded and the form is built.
\* phase3 has no form and goes on to the checks in the same run; that part
\* of its run is the action Submit.
LoadRules ==
    /\ pc = "start"
    /\ rules_df' = LoadedFrame(variant, csv)
    /\ pc' = LoadOutcome(variant, csv)
    /\ UNCHANGED <<variant, csv, proposal, selected_rule, violations, compliances,
                   compliance_percentage, score_metric, recommendations>>
    /\ UNCHANGED chatVars

\* a run of the script with the form submitted (phase3: with the widgets
\* set), the proposal being p
SubmitWith(p) ==
    LET rule == Lookup(rules_df, p.land_type)
        res == Evaluate(variant, p, rule[1])
        pct == CompliancePercentage(res.violations, res.compliances)
    IN  /\ proposal' = p
        /\ selected_rule' = rule
        /\ IF rule = <<>>
           THEN /\ pc' = "UnknownLandType"
                /\ violations' = <<>>
                /\ compliances' = <<>>
                /\ compliance_percentage' = <<>>
                /\ score_metric' = ""
                /\ recommendations' = <<>>
           ELSE IF res.error # ""
           THEN /\ pc' = res.error
                /\ violations' = res.violations
                /\ compliances' = res.compliances
                /\ compliance_percentage' = <<>>
                /\ score_metric' = ""
                /\ recommendations' = <<>>
           ELSE /\ pc' = "evaluated"
                /\ violations' = res.violations
                /\ compliances' = res.compliances
                /\ compliance_percentage' = IF variant = "phase3" THEN <<>> ELSE <<pct>>
                /\ score_metric' = IF variant = "phase3" THEN "" ELSE ScoreMetric(pct)
                /\ recommendations' =
                       IF variant = "phase4" THEN Recommendations(res.violations, rule[1])
                       ELSE <<>>

\* The form revisions run the checks in the run that follows a press of the
\* form's button; phase3 has no button and runs them in every run.  A press
\* right after another press leaves the state that the same press leaves
\* after Rerun, every run starting with fresh lists.
Submit ==
    /\ \/ pc = "form"
       \/ variant = "phase3" /\ pc \in {"evaluated", "UnknownLandType", "TypeError"}
    /\ \E p \in Proposals(variant, rules_df) : SubmitWith(p)
    /\ UNCHANGED <<variant, csv, rules_df>>
    /\ UNCHANGED chatVars

\* a run of a form revision that some other widget triggered: submit_button
\* is False, the block of the checks is skipped and nothing of the previous
\* result is shown
Rerun ==
    /\ variant \in FormVariants
    /\ pc \in {"evaluated", "UnknownLandType", "TypeError"}
    /\ pc' = "form"
    /\ proposal' = NoProposal
    /\ selected_rule' = <<>>
    /\ violations' = <<>>
    /\ compliances' = <<>>
    /\ compliance_percentage' = <<>>
    /\ score_metric' = ""
    /\ recommendations' = <<>>
    /\ UNCHANGED <<variant, csv, rules_df>>
    /\ UNCHANGED chatVars

Next == LoadRules \/ Submit \/ Rerun

Spec == Init /\ [][Next]_vars

-----------------------------------------------------------------------------
(* The score function on lists of any length *)

\* a list of n messages
Messages(n, text) == [i \in 1..n |-> text]

InitScore ==
    /\ variant \in {"main", "phase4"}
    /\ csv = ExampleFile
    /\ pc = "lists"
    /\ rules_df = EmptyFrame
    /\ proposal = NoProposal
    /\ selected_rule = <<>>
    /\ \E n \in 0..MaxChecks : violations = Messages(n, "FAR exceeds 1.5.")
    /\ \E n \in 0..MaxChecks : compliances = Messages(n, "Proximity to main road is acceptable.")
    /\ compliance_percentage = <<>>
    /\ score_metric = ""
    /\ recommendations = <<>>
    /\ ChatInit

\* the score and its metric, computed from the two lists
Score ==
    /\ pc = "lists"
    /\ pc' = "scored"
    /\ compliance_percentage' = <<CompliancePercentage(violations, compliances)>>
    /\ score_metric' = ScoreMetric(CompliancePercentage(violations, compliances))
    /\ UNCHANGED <<variant, csv, rules_df, proposal, selected_rule, violations,
                   compliances, recommendations>>
    /\ UNCHANGED chatVars

NextScore == Score

SpecScore == InitScore /\ [][NextScore]_vars

-----------------------------------------------------------------------------
(* The chat page *)

InitChat ==
    /\ variant \in ChatVariants
    /\ csv = ExampleFile
    /\ EvalInit
    /\ ChatInit

\* the bug of assigning a new list where the pair is to be appended
ChatSubmitOverwrite(user_query) ==
    /\ chat_history' = <<"**You:** " \o user_query,
                         "**Bot:** " \o BotResponse(variant, user_query)>>
    /\ faq_out' = FaqLine(variant, question)
    /\ stopped' = FaqStops(variant, question)
    /\ UNCHANGED <<variant, question>>

\* the Submit handler of the chat with user_query typed in the box: the pair
\* is appended and st.rerun() runs the page again
ChatSubmitWith(user_query) ==
    /\ chat_history' = chat_history
                           \o <<"**You:** " \o user_query,
                                "**Bot:** " \o BotResponse(variant, user_query)>>
    /\ faq_out' = FaqLine(variant, question)
    /\ stopped' = FaqStops(variant, question)
    /\ UNCHANGED <<variant, question>>

\* a run with the Submit button of the chat pressed
ChatSubmit ==
    /\ Len(chat_history) < 2 * MaxSubmissions
    /\ \E user_query \in Queries : ChatSubmitWith(user_query)
    /\ UNCHANGED evalVars

\* a run with another topic chosen in the FAQ selector
FaqSelect ==
    /\ \E q \in {Keys(FaqResponses(variant))[i] : i \in 1..Len(FaqResponses(variant))} :
          /\ question' = q
          /\ faq_out' = FaqLine(variant, q)
          /\ stopped' = FaqStops(variant, q)
    /\ UNCHANGED <<variant, chat_history>>
    /\ UNCHANGED evalVars

NextChat == ChatSubmit \/ FaqSelect

SpecChat == InitChat /\ [][NextChat]_vars

-----------------------------------------------------------------------------
(* The whole page of the scripts that have both the form and the chat *)

\* tables the whole page is run with: a valid one, one without rows, one
\* with a cell that is not a number
AppFiles == {ExampleFile, HeaderOnlyFile, BadNumberFile}

\* what is typed into the chat box on the whole page
AppQueries == {" Setback ", "EXIT", "FAR", "gibberish"}

\* the least and the greatest of the numbers a number input is given
Extremes(S) == {x \in S : (\A y \in S : x <= y) \/ (\A y \in S : y <= x)}

\* the proposals submitted on the whole page: the numbers at the ends of
\* their ranges, with the site near a main road or not
AppProposals(v, df) ==
    UNION {LET rule == Lookup(df, lt)
           IN  {[land_type |-> lt, height |-> h, population_density |-> d,
                 near_main_road |-> nmr, setback |-> sb, floor_area_ratio |-> far] :
                   h \in Extremes(NumberChoices(rule, "max_height", DefaultHeight, 0)),
                   d \in Extremes(NumberChoices(rule, "pop_density_limit", DefaultDensity, 0)),
                   nmr \in {"yes", "no"},
                   sb \in Extremes(NumberChoices(rule, "setback_min", DefaultSetback, 0)),
                   far \in Extremes(NumberChoices(rule, "floor_area_ratio", DefaultFar, 0))} :
             lt \in LandTypeChoices(df)}

InitApp ==
    /\ variant \in ChatVariants
    /\ csv \in AppFiles
    /\ EvalInit
    /\ ChatInit

\* a run with the form submitted
AppSubmit ==
    /\ pc = "form"
    /\ \E p \in AppProposals(variant, rules_df) : SubmitWith(p)
    /\ UNCHANGED <<variant, csv, rules_df>>
    /\ UNCHANGED chatVars

\* the compliance part of a run that a widget of the chat page triggered:
\* submit_button is False and the block of the checks is skipped
ChecksSkipped ==
    /\ pc' = "form"
    /\ proposal' = NoProposal
    /\ selected_rule' = <<>>
    /\ violations' = <<>>
    /\ compliances' = <<>>
    /\ compliance_percentage' = <<>>
    /\ score_metric' = ""
    /\ recommendations' = <<>>
    /\ UNCHANGED <<csv, rules_df>>

\* The chat and the FAQ come after the form in the script: their widgets are
\* on the page only when the last run got past the form block, which a run
\* ended by st.stop() (no rule for the land type) or by an exception did not.
ChatOnPage == pc \in {"form", "evaluated"}

\* a run with the Submit button of the chat pressed
AppChatSubmit ==
    /\ ChatOnPage
    /\ Len(chat_history) < 2 * MaxSubmissions
    /\ \E user_query \in AppQueries : ChatSubmitWith(user_query)
    /\ ChecksSkipped

\* a run with another topic chosen in the FAQ selector
AppFaqSelect ==
    /\ ChatOnPage
    /\ \E q \in {Keys(FaqResponses(variant))[i] : i \in 1..Len(FaqResponses(variant))} :
          /\ question' = q
          /\ faq_out' = FaqLine(variant, q)
          /\ stopped' = FaqStops(variant, q)
    /\ UNCHANGED <<variant, chat_history>>
    /\ ChecksSkipped

NextApp == LoadRules \/ AppSubmit \/ Rerun \/ AppChatSubmit \/ AppFaqSelect

SpecApp == InitApp /\ [][NextApp]_vars

-----------------------------------------------------------------------------
(* Reading the results of a run *)

StartsWith(s, prefix) ==
    Len(s) >= Len(prefix) /\ SubSeq(s, 1, Len(prefix)) = prefix

\* the check a violation message reports: 1 Height, 2 Density, 3 Proximity,
\* 4 Setback, 5 FAR
ViolationKind(msg) ==
    IF StartsWith(msg, "Height exceeds") THEN 1
    ELSE IF StartsWith(msg, "Density exceeds")
            \/ StartsWith(msg, "Population density exceeds") THEN 2
    ELSE IF StartsWith(msg, "Site should be")
            \/ StartsWith(msg, "Proximity to main road does not match") THEN 3
    ELSE IF StartsWith(msg, "Setback is less than") THEN 4
    ELSE IF StartsWith(msg, "FAR exceeds") THEN 5
    ELSE 0

\* the check a compliance message reports
ComplianceKind(msg) ==
    IF StartsWith(msg, "Height of") THEN 1
    ELSE IF StartsWith(msg, "Population density of") THEN 2
    ELSE IF StartsWith(msg, "Proximity to main road is acceptable") THEN 3
    ELSE IF StartsWith(msg, "Setback of") THEN 4
    ELSE IF StartsWith(msg, "FAR of") THEN 5
    ELSE 0

ViolationKinds == {ViolationKind(violations[i]) : i \in 1..Len(violations)}

ComplianceKinds == {ComplianceKind(compliances[i]) : i \in 1..Len(compliances)}

\* every numeric limit of the row is a number
RuleIsNumeric(r) == \A col \in NumericColumns : r[col].isnum

\* the lookup of the last run found a row with numeric limits
RuleResolved == selected_rule # <<>> /\ RuleIsNumeric(selected_rule[1])

-----------------------------------------------------------------------------
(* C1 *)

\* C1: in the form revisions, whenever the rule of the submitted land type
\* was resolved (and its limits are numbers) the run completes all five
\* checks: the two lists hold five messages together, each list is in the
\* order Height, Density, Proximity, Setback, FAR, and every check appears
\* in exactly one of the two lists, whichever checks failed.
C1_FiveChecksInOrder ==
    (variant \in FormVariants /\ RuleResolved) =>
        /\ pc = "evaluated"
        /\ Len(violations) + Len(compliances) = 5
        /\ \A i, j \in 1..Len(violations) :
              i < j => ViolationKind(violations[i]) < ViolationKind(violations[j])
        /\ \A i, j \in 1..Len(compliances) :
              i < j => ComplianceKind(compliances[i]) < ComplianceKind(compliances[j])
        /\ ViolationKinds \cup ComplianceKinds = 1..5
        /\ ViolationKinds \cap ComplianceKinds = {}

\* a run in which the first and the fourth check fail and the others pass
C1_Witness ==
    /\ variant = "main"
    /\ pc = "evaluated"
    /\ ViolationKinds = {1, 4}
    /\ ComplianceKinds = {2, 3, 5}

-----------------------------------------------------------------------------
(* C2 *)

\* C2: in phase4, the Recommendations block writes exactly one line for each
\* violation of the run, the Proximity violation included.
C2_OneRecommendationPerViolation ==
    (variant = "phase4" /\ pc = "evaluated") =>
        Len(recommendations) = Len(violations)

-----------------------------------------------------------------------------
(* C3 *)

\* C3: a height, density or FAR is reported as a violation exactly when it
\* is strictly greater than the limit of the rule, a setback exactly when it
\* is strictly less than setback_min; a value equal to the limit is reported
\* as compliant.
C3_BoundaryLaw ==
    (variant \in FormVariants /\ pc = "evaluated") =>
        LET r == selected_rule[1]
        IN  /\ (1 \in ViolationKinds) <=> (proposal.height > r.max_height.n)
            /\ (2 \in ViolationKinds) <=> (proposal.population_density > r.pop_density_limit.n)
            /\ (4 \in ViolationKinds) <=> (proposal.setback < r.setback_min.n)
            /\ (5 \in ViolationKinds) <=> (proposal.floor_area_ratio > r.floor_area_ratio.n)
            /\ (proposal.height = r.max_height.n) => (1 \in ComplianceKinds)
            /\ (proposal.population_density = r.pop_density_limit.n) => (2 \in ComplianceKinds)
            /\ (proposal.setback = r.setback_min.n) => (4 \in ComplianceKinds)
            /\ (proposal.floor_area_ratio = r.floor_area_ratio.n) => (5 \in ComplianceKinds)

\* a run in which all four numbers sit on their limits and pass
C3_Witness ==
    /\ variant = "main"
    /\ pc = "evaluated"
    /\ proposal.height = selected_rule[1].max_height.n
    /\ proposal.population_density = selected_rule[1].pop_density_limit.n
    /\ proposal.setback = selected_rule[1].setback_min.n
    /\ proposal.floor_area_ratio = selected_rule[1].floor_area_ratio.n
    /\ {1, 2, 4, 5} \subseteq ComplianceKinds

-----------------------------------------------------------------------------
(* C4 *)

RECURSIVE DigitsValue(_)
\* the number a string of decimal digits writes, the other characters skipped
DigitsValue(s) ==
    IF Len(s) = 0 THEN 0
    ELSE LET last == CharAt(s, Len(s))
             rest == DigitsValue(SubSeq(s, 1, Len(s) - 1))
         IN  IF \E d \in 0..9 : Digits(d) = last
             THEN 10 * rest + (CHOOSE d \in 0..9 : Digits(d) = last)
             ELSE rest

\* the tenths shown by a metric such as "66.7%"
MetricTenths(text) == DigitsValue(text)

\* C4: the score is compliant / (compliant + violations) * 100, shown as the
\* nearest number with one decimal; it lies between 0 and 100; it is 0 when
\* both lists are empty; with five checks it is one of 0, 20, 40, 60, 80,
\* 100 and it is 100 exactly when nothing is violated.  (Tenths below.)
C4_ScoreDefinition ==
    (pc = "scored") =>
        LET c == Len(compliances)
            n == Len(violations) + Len(compliances)
            pct == compliance_percentage[1]
            t == MetricTenths(score_metric)
        IN  /\ pct.den > 0
            /\ n > 0 => pct.num * n = c * 100 * pct.den
            /\ n = 0 => pct.num = 0 /\ t = 0
            /\ n > 0 => /\ 2 * (t * n - c * 1000) <= n
                        /\ 2 * (c * 1000 - t * n) <= n
            /\ 0 <= t /\ t <= 1000
            /\ score_metric = FloatStr(t) \o "%"
            /\ n = 5 => /\ t \in {0, 200, 400, 600, 800, 1000}
                        /\ (t = 1000) <=> (violations = <<>>)

\* three of five checks passed: 60.0%
C4_Witness ==
    /\ pc = "scored"
    /\ Len(compliances) = 3
    /\ Len(violations) = 2
    /\ score_metric = "60.0%"

-----------------------------------------------------------------------------
(* C5 *)

\* C5: after a run, the rule in use is the first row, in table order, whose
\* land_type is the very string that was requested (letter case included),
\* duplicates or not; when no row matches the run ends as UnknownLandType
\* with no check run and no score.
C5_LookupFirstExactMatch ==
    (pc \in {"evaluated", "UnknownLandType", "TypeError"}) =>
        LET rows == rules_df.rows
            m == {i \in 1..Len(rows) : proposal.land_type = <<rows[i].land_type>>}
        IN  IF m = {}
            THEN /\ pc = "UnknownLandType"
                 /\ selected_rule = <<>>
                 /\ violations = <<>> /\ compliances = <<>>
                 /\ compliance_percentage = <<>> /\ score_metric = ""
                 /\ recommendations = <<>>
            ELSE /\ pc # "UnknownLandType"
                 /\ \E i \in m : /\ \A j \in m : i <= j
                                 /\ selected_rule = <<rows[i]>>

\* the key Residential occurs twice; the first of the two rows is in use
C5_Witness ==
    /\ csv = DuplicatesFile
    /\ pc = "evaluated"
    /\ proposal.land_type = <<"Residential">>
    /\ selected_rule = <<rules_df.rows[1]>>
    /\ selected_rule # <<rules_df.rows[4]>>

-----------------------------------------------------------------------------
(* C6 *)

\* the table build is to reject: no land_type column (names compared after
\* trimming), no row, or a numeric cell that does not parse
InvalidRuleData(f) ==
    /\ f.exists /\ ~f.empty
    /\ \/ "land_type" \notin {Strip(c) : c \in f.header}
       \/ f.rows = <<>>
       \/ \E i \in 1..Len(f.rows) : ~RuleIsNumeric(f.rows[i])

\* C6: with such a table the script halts before any evaluation is
\* attempted: no run gets as far as a comparison of the checks.
C6_InvalidTableNeverEvaluated ==
    InvalidRuleData(csv) => pc \notin {"evaluated", "TypeError"}

-----------------------------------------------------------------------------
(* C8 *)

\* C8: the Proximity check reports a violation exactly when the two strings
\* differ, letter case included.
C8_ProximityCaseSensitive ==
    (pc = "evaluated") =>
        ((3 \in ViolationKinds) <=>
            (proposal.near_main_road # selected_rule[1].near_main_road))

-----------------------------------------------------------------------------
(* Reading the chat history *)

\* number of (query, answer) pairs in the history
Pairs == Len(chat_history) \div 2

\* the query of the k-th pair, as typed: the entry without its "**You:** "
QueryOf(k) == SubSeq(chat_history[2 * k - 1], 10, Len(chat_history[2 * k - 1]))

\* the answer of the k-th pair: the entry without its "**Bot:** "
AnswerOf(k) == SubSeq(chat_history[2 * k], 10, Len(chat_history[2 * k]))

\* trimmed and lower-cased
Normalized(s) == Strip(Lower(s))

-----------------------------------------------------------------------------
(* C7 *)

\* C7: every recorded answer is the answer of the table entry whose
\* normalized key equals the normalized (trimmed, lower-cased) query, and
\* the fallback when there is no such entry.
C7_RespondNormalizedExact ==
    (variant \in ChatVariants) =>
        \A k \in 1..Pairs :
            LET table == ChatResponses(variant)
                hits == {i \in 1..Len(table) :
                            Normalized(table[i][1]) = Normalized(QueryOf(k))}
            IN  IF hits = {} THEN AnswerOf(k) = Fallback(variant)
                ELSE \E i \in hits : AnswerOf(k) = table[i][2]

-----------------------------------------------------------------------------
(* C9 *)

\* C9: in the main script a chat query that normalizes to "exit" is recorded
\* with the configured goodbye answer, every query recorded after it has the
\* answer it would have had before, and the run is ended by st.stop() only
\* when the FAQ selector is on the sentinel.
C9_ExitAnsweredLikeAnyKey ==
    (variant = "main") =>
        /\ \A k \in 1..Pairs :
              Normalized(QueryOf(k)) = "exit" =>
                  AnswerOf(k) = "Goodbye! Chat session has ended."
        /\ \A j, k \in 1..Pairs :
              (j < k /\ Normalized(QueryOf(j)) = "exit") =>
                  AnswerOf(k) = Get(ResponsesMain, Normalized(QueryOf(k)), FallbackMain)
        /\ stopped <=> (Lower(question) = "exit")

\* "exit" was typed first, the query after it got the setback answer, and
\* no run was stopped
C9_Witness ==
    /\ variant = "main"
    /\ Pairs = 2
    /\ Normalized(QueryOf(1)) = "exit"
    /\ AnswerOf(1) = "Goodbye! Chat session has ended."
    /\ QueryOf(2) = " Setback "
    /\ AnswerOf(2) = "Setbacks ensure buildings maintain proper distance from roads and neighboring properties."
    /\ ~stopped

-----------------------------------------------------------------------------
(* C10 *)

\* a/b < c/d for fractions with positive denominators
FractionLess(x, y) == x.num * y.den < y.num * x.den

\* C10: for lists of any fixed total length n >= 1, the percentage of the
\* lists with one compliant check turned into a violation is strictly less
\* than the percentage of the lists themselves.
C10_ScoreMonotonic ==
    (pc = "scored" /\ compliances # <<>>) =>
        FractionLess(
            CompliancePercentage(Append(violations, "Height exceeds 15 meters."),
                                 Tail(compliances)),
            compliance_percentage[1])

\* four of five checks passed
C10_Witness ==
    /\ pc = "scored"
    /\ Len(compliances) = 4
    /\ Len(violations) = 1
    /\ compliance_percentage = <<[num |-> 400, den |-> 5]>>

-----------------------------------------------------------------------------
(* C11 *)

\* the answers the table of the running script can give
KnownAnswers ==
    {ChatResponses(variant)[i][2] : i \in 1..Len(ChatResponses(variant))}
        \cup {Fallback(variant)}

\* the history is a list of pairs: a query exactly as it was typed, under
\* "**You:** ", then an answer of the table, under "**Bot:** "; and the same
\* query has the same answer wherever it stands in the history
C11_Pairs ==
    /\ Len(chat_history) = 2 * Pairs
    /\ \A k \in 1..Pairs :
          /\ StartsWith(chat_history[2 * k - 1], "**You:** ")
          /\ StartsWith(chat_history[2 * k], "**Bot:** ")
          /\ QueryOf(k) \in AppQueries
          /\ AnswerOf(k) \in KnownAnswers
    /\ \A j, k \in 1..Pairs :
          QueryOf(j) = QueryOf(k) => AnswerOf(j) = AnswerOf(k)

\* a run leaves the history as it is or appends exactly two entries to it
C11_Step ==
    \/ chat_history' = chat_history
    \/ /\ Len(chat_history') = Len(chat_history) + 2
       /\ SubSeq(chat_history', 1, Len(chat_history)) = chat_history

\* C11: the chat history is append-only.  Every run leaves it unchanged or
\* appends one pair to it (so n submissions leave 2n entries, in the order
\* of the submissions, the earlier entries untouched); a pair is the query
\* as typed followed by its answer; the answer is fixed by the query alone,
\* whatever the history holds and whatever the form evaluated in between.
C11_TranscriptAppendOnly == [][C11_Step]_vars /\ []C11_Pairs

\* the same padded query was answered twice with the setback answer, recorded
\* as typed, and the form was evaluated with violations afterwards
C11_Witness ==
    /\ variant = "main"
    /\ Pairs = 2
    /\ chat_history[1] = "**You:**  Setback "
    /\ chat_history[3] = "**You:**  Setback "
    /\ AnswerOf(1) = "Setbacks ensure buildings maintain proper distance from roads and neighboring properties."
    /\ AnswerOf(2) = AnswerOf(1)
    /\ pc = "evaluated"
    /\ violations # <<>>

====
